---- MODULE Spec2Model ----
(***************************************************************************)
(* Round-robin ("all play all") tournament scheduling, src/index.ts.       *)
(*                                                                         *)
(* Arrays are TLA+ sequences: the code's 0-based index k is position k+1.  *)
(* Math.random is a nondeterministic choice, so every function that uses   *)
(* it is modelled by the set of its possible results.  shuffle returns the *)
(* array it was given (as it is after the call) next to the clone it       *)
(* returns, so that an argument modified in place would show in the state. *)
(***************************************************************************)
EXTENDS Integers, Sequences, FiniteSets, TLC

\* Largest number of participants handed to create().
MaxN == 4
\* reshuffle() is explored on fields of at most this length.
MaxReshuffleLen == 4
\* Largest number of participants when the rematch option is set.
MaxRematchN == 3
\* Largest number of participants when two iterations are interleaved.
MaxIterN == 2

\* The participants: distinct opaque values of the caller.
Names == <<"A", "B", "C", "D", "E", "F">>

VARIABLES pc, arr, calculatedOptions, handles, result, seen, its

vars == <<pc, arr, calculatedOptions, handles, result, seen, its>>

----------------------------------------------------------------------------
(* Helpers of src/index.ts *)

restSymbol == "rest"
selfSymbol == "self"

randomInRange(min, max) == min .. max

swap(idx1, idx2, a) ==
    [a EXCEPT ![idx1 + 1] = a[idx2 + 1], ![idx2 + 1] = a[idx1 + 1]]

RECURSIVE recurse(_, _)
recurse(startIdx, clonedArr) ==
    IF startIdx >= Len(clonedArr) - 1
    THEN {clonedArr}
    ELSE UNION { recurse(startIdx + 1, swap(startIdx, rndIdx, clonedArr)) :
                   rndIdx \in randomInRange(startIdx, Len(clonedArr) - 1) }

\* A plausible slip: the shuffle works on the argument itself, not on a copy.
shuffleInPlace(a) ==
    { [arr |-> c, clonedArr |-> c] : c \in recurse(0, a) }

shuffle(a) ==
    { [arr |-> a, clonedArr |-> c] : c \in recurse(0, a) }

last(a) == a[Len(a)]

\* times(end - start, idx => idx + start); position k holds index k - 1.
range(start, end) == [k \in 1 .. (end - start) |-> (k - 1) + start]

\* A plausible slip: the whole array is rotated, the first item included.
shiftRobinAll(amount, items) ==
    [k \in 1 .. Len(items) |->
        items[((Len(items) - amount + (k - 1)) % Len(items)) + 1]]

\* A plausible slip: the ring is rotated to the left.
shiftRobinLeft(amount, items) ==
    LET staticItem  == Head(items)
        movingItems == Tail(items)
    IN  <<staticItem>> \o
        [k \in 1 .. Len(movingItems) |->
            movingItems[((amount + (k - 1)) % Len(movingItems)) + 1]]

shiftRobin(amount, items) ==
    LET staticItem  == Head(items)
        movingItems == Tail(items)
    IN  <<staticItem>> \o
        [k \in 1 .. Len(movingItems) |->
            movingItems[((Len(movingItems) - amount + (k - 1))
                            % Len(movingItems)) + 1]]

\* A plausible slip: the sentry test looks for the wrong symbol.
isSentrySelf(item) == item = selfSymbol

isSentry(item) == item = restSymbol

getDefaultTournamentOptions == [rematch |-> FALSE, playSelf |-> FALSE]

reverse(a) == [k \in 1 .. Len(a) |-> a[Len(a) + 1 - k]]

getShiftsOrder(numFixtures) == shuffle(range(1, numFixtures))

----------------------------------------------------------------------------
(* getFixture: the games of one arrangement *)

\* A plausible slip: the self placeholder is not replaced.
candidateNoSelf(items, gameIdx) ==
    <<items[gameIdx + 1], items[Len(items) - gameIdx]>>

\* A plausible slip: neighbours are paired instead of opposite slots.
candidateAdjacent(items, gameIdx) ==
    <<items[2 * gameIdx + 1], items[2 * gameIdx + 2]>>

\* The pair [leftItem, rightItem] as it stands at the sentry test.
candidate(items, gameIdx) ==
    LET numItems  == Len(items)
        left0     == items[gameIdx + 1]
        right0    == items[numItems - 1 - gameIdx + 1]
        leftItem  == IF left0 = selfSymbol THEN right0 ELSE left0
        rightItem == IF right0 = selfSymbol THEN leftItem ELSE right0
    IN  <<leftItem, rightItem>>

yielded(game) == ~isSentry(game[1]) /\ ~isSentry(game[2])

getFixture(items) ==
    LET numGames == Len(items) \div 2
    IN  SelectSeq([k \in 1 .. numGames |-> candidate(items, k - 1)], yielded)

----------------------------------------------------------------------------
(* Rounds.  A round is recorded by the shift order it drew and by the      *)
(* arrangements (items, then each currItems) its fixtures were taken from. *)

getRound(items) ==
    { [shiftsOrder |-> s.clonedArr,
       currItems   |-> <<items>> \o
                       [k \in 1 .. Len(s.clonedArr) |->
                           shiftRobin(s.clonedArr[k], items)]] :
      s \in getShiftsOrder(Len(items) - 1) }

\* The fixtures a round yields, each iterated to its end.
fixturesOf(round) ==
    [k \in 1 .. Len(round.currItems) |-> getFixture(round.currItems[k])]

getRounds(items, options) ==
    IF options.rematch
    THEN { <<r1, r2>> : r1 \in getRound(items), r2 \in getRound(reverse(items)) }
    ELSE { <<r1>> : r1 \in getRound(items) }

RECURSIVE concat(_)
concat(seqs) ==
    IF Len(seqs) = 0 THEN <<>> ELSE Head(seqs) \o concat(Tail(seqs))

\* What rounds(), fixtures() and games() yield for the rounds drawn.
roundsOut(rounds) == [r \in 1 .. Len(rounds) |-> fixturesOf(rounds[r])]
getRoundFixtures(rounds) == concat(roundsOut(rounds))
getRoundGames(rounds) == concat(getRoundFixtures(rounds))

----------------------------------------------------------------------------
(* The template and the tournament *)

OptionKeys == {"rematch", "playSelf", "shuffle"}
PartialOptions == UNION { [S -> BOOLEAN] : S \in SUBSET OptionKeys }

\* { ...getDefaultTournamentOptions(), ...options }
allPlayAll(options) == options @@ getDefaultTournamentOptions

createTournament(a, options) ==
    { LET r0 == s.clonedArr
          r1 == IF options.playSelf THEN Append(r0, selfSymbol) ELSE r0
          isOdd == Len(r1) % 2 # 0
          r2 == IF isOdd THEN Append(r1, restSymbol) ELSE r1
      IN  [arr |-> s.arr, robinItems |-> r2] : s \in shuffle(a) }

NoResult == [on |-> 0, method |-> "none", rounds |-> <<>>, out |-> <<>>]

\* The set of the games in a sequence of games.
gameSet(games) == { games[k] : k \in 1 .. Len(games) }

(* pc: "init", then "template" (allPlayAll returned), then "tournament"    *)
(*     (create returned).                                                  *)
(* arr: the caller's array.  handles: the robinItems of the handle create  *)
(*     returned and, after a reshuffle, of the newest handle.              *)
(* result: what the caller's last call of rounds(), fixtures() or games()  *)
(*     yielded, iterated to the end, until the caller drops it.            *)
(* seen: the set of games the caller last got from games() on the first    *)
(*     handle (<<>> before the first such call).                           *)
(* its: the caller's two games() iterations when it interleaves them.      *)
Init ==
    /\ pc = "init"
    /\ \E n \in 0 .. MaxN : arr = SubSeq(Names, 1, n)
    /\ calculatedOptions = getDefaultTournamentOptions
    /\ handles = <<>>
    /\ result = NoResult
    /\ seen = <<>>
    /\ its = <<>>

AllPlayAll ==
    /\ pc = "init"
    /\ \E options \in PartialOptions :
          /\ allPlayAll(options).rematch => Len(arr) <= MaxRematchN
          /\ calculatedOptions' = allPlayAll(options)
    /\ pc' = "template"
    /\ UNCHANGED <<arr, handles, result, seen, its>>

Create ==
    /\ pc = "template"
    /\ \E t \in createTournament(arr, calculatedOptions) :
          /\ arr' = t.arr
          /\ handles' = <<t.robinItems>>
    /\ pc' = "tournament"
    /\ UNCHANGED <<calculatedOptions, result, seen, its>>

\* reshuffle() on handle h; the caller keeps the first handle and the newest.
Reshuffle(h) ==
    /\ pc = "tournament"
    /\ result = NoResult
    /\ Len(handles[h]) <= MaxReshuffleLen
    /\ \E s \in shuffle(handles[h]) :
          handles' = <<IF h = 1 THEN s.arr ELSE handles[1], s.clonedArr>>
    /\ UNCHANGED <<pc, arr, calculatedOptions, result, seen, its>>

\* rounds() on handle h, iterated to the end.
Rounds(h) ==
    /\ pc = "tournament"
    /\ result = NoResult
    /\ \E rs \in getRounds(handles[h], calculatedOptions) :
          result' = [on |-> h, method |-> "rounds", rounds |-> rs,
                     out |-> roundsOut(rs)]
    /\ UNCHANGED <<pc, arr, calculatedOptions, handles, seen, its>>

\* fixtures() on handle h, iterated to the end.
Fixtures(h) ==
    /\ pc = "tournament"
    /\ result = NoResult
    /\ \E rs \in getRounds(handles[h], calculatedOptions) :
          result' = [on |-> h, method |-> "fixtures", rounds |-> rs,
                     out |-> getRoundFixtures(rs)]
    /\ UNCHANGED <<pc, arr, calculatedOptions, handles, seen, its>>

\* games() on handle h, iterated to the end.
Games(h) ==
    /\ pc = "tournament"
    /\ result = NoResult
    /\ \E rs \in getRounds(handles[h], calculatedOptions) :
          /\ result' = [on |-> h, method |-> "games", rounds |-> rs,
                        out |-> getRoundGames(rs)]
          /\ seen' = IF h = 1 THEN <<gameSet(getRoundGames(rs))>> ELSE seen
    /\ UNCHANGED <<pc, arr, calculatedOptions, handles, its>>

\* The caller lets go of the sequence it iterated.
Drop ==
    /\ result # NoResult
    /\ result' = NoResult
    /\ UNCHANGED <<pc, arr, calculatedOptions, handles, seen, its>>

Next ==
    \/ AllPlayAll
    \/ Create
    \/ \E h \in 1 .. Len(handles) : Reshuffle(h)
    \/ \E h \in 1 .. Len(handles) : Rounds(h)
    \/ \E h \in 1 .. Len(handles) : Fixtures(h)
    \/ \E h \in 1 .. Len(handles) : Games(h)
    \/ Drop

Spec == Init /\ [][Next]_vars

----------------------------------------------------------------------------
(* Two games() iterations of the first handle, advanced one next() at a    *)
(* time.  An iteration's cursor is the position of its nested generators:  *)
(* pass (1, or 2 for the rematch round), fixtureIdx (-1 at the round's     *)
(* first fixture, then the index into its own shiftsOrder), gameIdx, and   *)
(* out, the games it has yielded.                                          *)

newIterator ==
    [state |-> "idle", pass |-> 1, fixtureIdx |-> -1, shiftsOrder |-> <<>>,
     gameIdx |-> 0, out |-> <<>>]

\* next(): run the generators from cursor c to the next yielded game or to
\* the end.  The shift order is drawn when the round's generator is resumed
\* after its first fixture.
RECURSIVE advance(_, _, _)
advance(c, field, options) ==
    IF c.fixtureIdx >= 0 /\ c.fixtureIdx >= Len(c.shiftsOrder)
    THEN IF c.pass = 1 /\ options.rematch
         THEN advance([c EXCEPT !.pass = 2, !.fixtureIdx = -1,
                                !.shiftsOrder = <<>>, !.gameIdx = 0],
                      field, options)
         ELSE {[c EXCEPT !.state = "done"]}
    ELSE LET items == IF c.pass = 1 THEN field ELSE reverse(field)
             currItems == IF c.fixtureIdx = -1 THEN items
                          ELSE shiftRobin(c.shiftsOrder[c.fixtureIdx + 1], items)
             numGames == Len(currItems) \div 2
         IN  IF c.gameIdx < numGames
             THEN IF yielded(candidate(currItems, c.gameIdx))
                  THEN {[c EXCEPT !.gameIdx = @ + 1,
                                  !.out = Append(@, candidate(currItems, c.gameIdx))]}
                  ELSE advance([c EXCEPT !.gameIdx = @ + 1], field, options)
             ELSE IF c.fixtureIdx = -1
                  THEN UNION { advance([c EXCEPT !.shiftsOrder = s.clonedArr,
                                                 !.fixtureIdx = 0, !.gameIdx = 0],
                                       field, options) :
                               s \in getShiftsOrder(Len(items) - 1) }
                  ELSE advance([c EXCEPT !.fixtureIdx = @ + 1, !.gameIdx = 0],
                               field, options)

\* A plausible slip: the shift order is kept in one place for all iterations.
nextSharedShifts(iters, i, field, options) ==
    { [j \in DOMAIN iters |->
          IF j = i THEN c
          ELSE [iters[j] EXCEPT !.shiftsOrder = c.shiftsOrder]] :
      c \in advance(iters[i], field, options) }

\* The caller's iterations after a next() on iteration i.
next(iters, i, field, options) ==
    { [iters EXCEPT ![i] = c] : c \in advance(iters[i], field, options) }

InitIter ==
    /\ pc = "init"
    /\ \E n \in 0 .. MaxIterN : arr = SubSeq(Names, 1, n)
    /\ calculatedOptions = getDefaultTournamentOptions
    /\ handles = <<>>
    /\ result = NoResult
    /\ seen = <<>>
    /\ its = <<newIterator, newIterator>>

\* games() on the first handle: a new iteration, nothing run yet.
GamesIter(i) ==
    /\ pc = "tournament"
    /\ its[i].state = "idle"
    /\ its' = [its EXCEPT ![i] = [newIterator EXCEPT !.state = "running"]]
    /\ UNCHANGED <<pc, arr, calculatedOptions, handles, result, seen>>

NextGame(i) ==
    /\ pc = "tournament"
    /\ its[i].state = "running"
    /\ its' \in next(its, i, handles[1], calculatedOptions)
    /\ UNCHANGED <<pc, arr, calculatedOptions, handles, result, seen>>

\* The caller stops iterating early.
Return(i) ==
    /\ pc = "tournament"
    /\ its[i].state = "running"
    /\ its' = [its EXCEPT ![i].state = "closed"]
    /\ UNCHANGED <<pc, arr, calculatedOptions, handles, result, seen>>

NextIter ==
    \/ AllPlayAll
    \/ Create
    \/ \E i \in 1 .. 2 : GamesIter(i)
    \/ \E i \in 1 .. 2 : NextGame(i)
    \/ \E i \in 1 .. 2 : Return(i)

SpecIter == InitIter /\ [][NextIter]_vars

----------------------------------------------------------------------------
(* Vocabulary of the properties *)

playSelf == calculatedOptions.playSelf
rematch == calculatedOptions.rematch
shuffleIsFalse ==
    "shuffle" \in DOMAIN calculatedOptions /\ ~calculatedOptions["shuffle"]

\* Index pairs of two distinct participants of the input.
distinctPairs == { p \in (1 .. Len(arr)) \X (1 .. Len(arr)) : p[1] < p[2] }

countGame(games, g) == Cardinality({ k \in 1 .. Len(games) : games[k] = g })

\* In how many games a meets b, on either side.
countPair(games, a, b) ==
    Cardinality({ k \in 1 .. Len(games) :
                    games[k] = <<a, b>> \/ games[k] = <<b, a>> })

selfPairings(games) ==
    Cardinality({ k \in 1 .. Len(games) : games[k][1] = games[k][2] })

isPermutation(a, b) ==
    /\ Len(a) = Len(b)
    /\ \A k \in 1 .. Len(a) :
          Cardinality({ m \in 1 .. Len(a) : a[m] = a[k] })
              = Cardinality({ m \in 1 .. Len(b) : b[m] = a[k] })

\* All the games of the caller's result, whatever the method.
allGames ==
    CASE result.method = "rounds" -> concat(concat(result.out))
      [] result.method = "fixtures" -> concat(result.out)
      [] result.method = "games" -> result.out
      [] OTHER -> <<>>

\* The games of pass r of a rounds() result.
passGames(r) == concat(result.out[r])

eachPairOnce(games) ==
    \A p \in distinctPairs : countPair(games, arr[p[1]], arr[p[2]]) = 1

----------------------------------------------------------------------------
(* C1: in one round pass every unordered pair of distinct participants     *)
(* appears in exactly one yielded game, for every input, every playSelf    *)
(* setting, every handle (created or reshuffled) and every shift order.    *)
C1_EveryPairOncePerPass ==
    /\ result.method = "rounds" =>
          \A r \in 1 .. Len(result.out) : eachPairOnce(passGames(r))
    /\ (result.method \in {"fixtures", "games"} /\ ~rematch) =>
          eachPairOnce(allGames)

C1_Witness ==
    /\ result.method = "rounds"
    /\ result.on = 2
    /\ Len(arr) = 3
    /\ playSelf
    /\ handles[2][1] = selfSymbol
    /\ result.rounds[1].shiftsOrder = <<2, 1>>

(* C2 as stated: with rematch every unordered pair is yielded exactly      *)
(* twice, once per pass, and the rematch pass yields (b,a) where the first *)
(* pass yields (a,b).                                                      *)
C2_RematchSwapsRoles ==
    /\ (result.method = "rounds" /\ rematch) =>
          /\ Len(result.out) = 2
          /\ eachPairOnce(passGames(1))
          /\ eachPairOnce(passGames(2))
          /\ \A k \in 1 .. Len(passGames(1)) :
                LET g == passGames(1)[k]
                IN  g[1] # g[2] => countGame(passGames(2), <<g[2], g[1]>>) = 1
    /\ (result.method = "games" /\ rematch) =>
          \A p \in distinctPairs :
             /\ countGame(result.out, <<arr[p[1]], arr[p[2]]>>) = 1
             /\ countGame(result.out, <<arr[p[2]], arr[p[1]]>>) = 1

(* C4 as stated: with playSelf and a non-empty input, exactly one game of  *)
(* each round is a self-pairing.                                           *)
C4_OneSelfPairingPerRound ==
    (result.method = "rounds" /\ playSelf /\ Len(arr) >= 1) =>
        \A r \in 1 .. Len(result.out) : selfPairings(passGames(r)) = 1

(* C4 amended: with playSelf, each round holds exactly one self-pairing    *)
(* per participant, so n self-pairings for n participants.                 *)
C4_OneSelfPairingPerParticipant ==
    (result.method = "rounds" /\ playSelf) =>
        \A r \in 1 .. Len(result.out) :
           /\ selfPairings(passGames(r)) = Len(arr)
           /\ \A k \in 1 .. Len(arr) :
                 countGame(passGames(r), <<arr[k], arr[k]>>) = 1

C4_Witness ==
    /\ result.method = "rounds"
    /\ result.on = 2
    /\ playSelf
    /\ Len(arr) = 3

(* C5 as stated: for the empty input without playSelf the field is empty   *)
(* and rounds(), fixtures() and games() each yield nothing.                *)
C5_EmptyInputYieldsNothing ==
    (pc = "tournament" /\ Len(arr) = 0 /\ ~playSelf) =>
        /\ handles[1] = <<>>
        /\ result.method # "none" => Len(result.out) = 0

C7_ReshuffleLeavesOriginal ==
    [][ /\ arr' = arr
        /\ pc = "tournament" =>
              /\ handles'[1] = handles[1]
              /\ handles' # handles =>
                    /\ Len(handles') = 2
                    /\ \E h \in 1 .. Len(handles) :
                          isPermutation(handles'[2], handles[h])
        /\ (seen # <<>>) => seen' = seen ]_vars

C7_Witness ==
    /\ Len(handles) = 2
    /\ handles[2] # handles[1]
    /\ handles[2][1] = restSymbol
    /\ seen # <<>>
    /\ result.method = "games"
    /\ result.on = 1

\* The ring (slots 1..L-1) of base turned to the right by amount places.
isRightRotation(arrangement, base, amount) ==
    /\ Len(arrangement) = Len(base)
    /\ arrangement[1] = base[1]
    /\ \A q \in 0 .. Len(base) - 2 :
          arrangement[2 + ((q + amount) % (Len(base) - 1))] = base[2 + q]

(* C9: for a field of even length L >= 2 each round has exactly L-1        *)
(* fixtures: the first from the field as given (reversed in the rematch    *)
(* pass), the others from right-rotations of slots 1..L-1 by offsets that  *)
(* are a permutation of 1..L-2; slot 0 is the same in every arrangement.   *)
C9_RoundIsAllRotations ==
    (result.method # "none" /\ Len(handles[result.on]) >= 2) =>
        LET field == handles[result.on]
            L == Len(field)
        IN  /\ L % 2 = 0
            /\ result.method = "rounds" =>
                  \A r \in 1 .. Len(result.out) : Len(result.out[r]) = L - 1
            /\ result.method = "fixtures" =>
                  Len(result.out) = (L - 1) * Len(result.rounds)
            /\ \A r \in 1 .. Len(result.rounds) :
                  LET rd == result.rounds[r]
                      base == IF r = 1 THEN field ELSE reverse(field)
                  IN  /\ Len(rd.currItems) = L - 1
                      /\ rd.currItems[1] = base
                      /\ Len(rd.shiftsOrder) = L - 2
                      /\ { rd.shiftsOrder[k] : k \in 1 .. L - 2 } = 1 .. L - 2
                      /\ \A k \in 1 .. L - 2 :
                            isRightRotation(rd.currItems[k + 1], base,
                                            rd.shiftsOrder[k])
                      /\ \A k \in 1 .. L - 1 : rd.currItems[k][1] = base[1]

C9_Witness ==
    /\ result.method = "rounds"
    /\ Len(handles[1]) = 6
    /\ result.rounds[1].shiftsOrder = <<3, 1, 4, 2>>

\* A candidate pairing of two slot values, a SELF side replaced by the other.
resolved(x, y) ==
    <<IF x = selfSymbol THEN y ELSE x, IF y = selfSymbol THEN x ELSE y>>

noRest(game) == game[1] # restSymbol /\ game[2] # restSymbol

expectedFixture(items) ==
    SelectSeq([k \in 1 .. (Len(items) \div 2) |->
                  resolved(items[k], items[Len(items) + 1 - k])], noRest)

(* C10: no yielded game holds REST or SELF; a candidate pairing is yielded *)
(* exactly when, a SELF side replaced by the other side, neither side is   *)
(* REST; a single participant without playSelf yields no game.             *)
C10_NoPlaceholderYielded ==
    /\ LET games == allGames
       IN  \A k \in 1 .. Len(games) :
              /\ games[k][1] \notin {restSymbol, selfSymbol}
              /\ games[k][2] \notin {restSymbol, selfSymbol}
    /\ result.method = "rounds" =>
          \A r \in 1 .. Len(result.out) :
             \A k \in 1 .. Len(result.out[r]) :
                result.out[r][k] =
                    expectedFixture(result.rounds[r].currItems[k])
    /\ (result.method # "none" /\ Len(arr) = 1 /\ ~playSelf) =>
          Len(allGames) = 0

C10_Witness ==
    /\ result.method = "rounds"
    /\ result.on = 2
    /\ playSelf
    /\ Len(arr) = 2
    /\ handles[2][1] = selfSymbol

isPrefix(p, q) == Len(p) <= Len(q) /\ SubSeq(q, 1, Len(p)) = p

\* The sequences games() can yield when one iteration runs alone to its end.
aloneRuns ==
    { getRoundGames(rs) : rs \in getRounds(handles[1], calculatedOptions) }

(* C3 as stated: two calls on the same handle, each iterated to the end,   *)
(* yield the same games in the same order.                                 *)
C3_SameSequenceEachCall ==
    (its[1].state = "done" /\ its[2].state = "done") =>
        its[1].out = its[2].out

(* C8: however two iterations of one handle are interleaved, and whether   *)
(* or not the other is stopped early, each has yielded a prefix of a       *)
(* sequence it can yield when run alone, and the whole of one when done.   *)
C8_IterationsDoNotInterfere ==
    pc = "tournament" =>
        \A i \in 1 .. 2 :
           its[i].state # "idle" =>
              \E full \in aloneRuns :
                 /\ isPrefix(its[i].out, full)
                 /\ its[i].state = "done" => its[i].out = full

C8_Witness ==
    /\ pc = "tournament"
    /\ its[1].state = "closed"
    /\ Len(its[1].out) = 2
    /\ its[1].shiftsOrder = <<1, 2>>
    /\ its[2].state = "done"
    /\ its[2].shiftsOrder = <<2, 1>>

====
